---------------------------- MODULE Spec2Model ----------------------------
(***************************************************************************)
(* A model of src/src/app.py: the chat front-end over the Home Inventory   *)
(* store.  Strings are TLA+ strings (sequences of characters); the string  *)
(* methods the code calls (lower, strip, in, startswith, join, f-strings)  *)
(* are operators that compute what the Python methods compute.             *)
(*                                                                         *)
(* The store is outside the program.  db.run(<SELECT ...>) is modelled as  *)
(* yielding the selected rows as a sequence of tuples, which is what the   *)
(* code's own indexing (item[0], item[1]) presupposes; a raised exception  *)
(* is the other outcome.                                                   *)
(***************************************************************************)
EXTENDS Integers, Sequences, FiniteSets, TLC

VARIABLES
    chat_history,   \* st.session_state.chat_history: sequence of turns
    has_db,         \* whether st.session_state holds the key "db"
    store,          \* the committed Inventory table: sequence of rows
    uncommitted,    \* writes executed on a connection and not committed
    pc,             \* position of the script run inside the chat handler
    user_query,     \* the message being handled
    sql,            \* Stage A's output (the "query" key of the chain)
    sql_response,   \* the "response" key: <<>>, or <<text>> once db.run returned
    schema_read,    \* the "schema" key of the second assign has been filled
    calls,          \* collaborator invocations during this message, in order
    shown,          \* strings rendered by st.markdown for this message
    crashed,        \* the script run ended in an uncaught exception
    result          \* value returned by the function under test

vars == <<chat_history, has_db, store, uncommitted, pc, user_query, sql,
          sql_response, schema_read, calls, shown, crashed, result>>

----------------------------------------------------------------------------
(* Bounds of the model. *)

MaxPad == 1       \* whitespace characters added on each side of an input
MaxQty == 2       \* largest quantity of a row in the generated tables
MaxSubmits == 2   \* chat submissions per session
MaxUpdates == 2   \* update_inventory calls per session

----------------------------------------------------------------------------
(* Python string methods. *)

UpperChars == "ABCDEFGHIJKLMNOPQRSTUVWXYZ"
LowerChars == "abcdefghijklmnopqrstuvwxyz"
Whitespace == {" ", "\t", "\n"}

CharAt(s, i) == SubSeq(s, i, i)

\* str.lower() on one character
lower_char(c) ==
    IF \E i \in 1..Len(UpperChars) : CharAt(UpperChars, i) = c
    THEN CharAt(LowerChars, CHOOSE i \in 1..Len(UpperChars) : CharAt(UpperChars, i) = c)
    ELSE c

RECURSIVE lower(_)
\* str.lower()
lower(s) ==
    IF Len(s) = 0 THEN ""
    ELSE lower_char(CharAt(s, 1)) \o lower(SubSeq(s, 2, Len(s)))

RECURSIVE lstrip(_)
lstrip(s) ==
    IF Len(s) > 0 /\ CharAt(s, 1) \in Whitespace
    THEN lstrip(SubSeq(s, 2, Len(s)))
    ELSE s

RECURSIVE rstrip(_)
rstrip(s) ==
    IF Len(s) > 0 /\ CharAt(s, Len(s)) \in Whitespace
    THEN rstrip(SubSeq(s, 1, Len(s) - 1))
    ELSE s

\* str.strip()
strip(s) == rstrip(lstrip(s))

\* sub in s
contains(sub, s) ==
    \E i \in 1..(Len(s) - Len(sub) + 1) : SubSeq(s, i, i + Len(sub) - 1) = sub

\* s.startswith(prefix)
startswith(s, prefix) ==
    Len(s) >= Len(prefix) /\ SubSeq(s, 1, Len(prefix)) = prefix

RECURSIVE join(_, _)
\* sep.join(parts)
join(sep, parts) ==
    IF Len(parts) = 0 THEN ""
    ELSE IF Len(parts) = 1 THEN parts[1]
    ELSE parts[1] \o sep \o join(sep, Tail(parts))

\* x in <list>
in_list(x, list) == \E i \in 1..Len(list) : list[i] = x

----------------------------------------------------------------------------
(* Values. *)

\* What a call yields: a returned string, the None sentinel or a raised
\* exception, with the collaborator invocations the call made, in order.
Str(text) == [kind |-> "str", text |-> text, calls |-> <<>>]
None == [kind |-> "None", text |-> "", calls |-> <<>>]
Raised == [kind |-> "raise", text |-> "", calls |-> <<>>]

\* One invocation of a collaborator (the store or the model): the operation,
\* its arguments, whether it returned, and the text it returned.
Call(op, args, ok, out) == [op |-> op, args |-> args, ok |-> ok, out |-> out]

\* the outcome r of code that first invoked collaborator call c
After(c, r) == [r EXCEPT !.calls = <<c>> \o @]

\* the store handle as one call sees it: the committed rows, or a failure
Db(rows, ok) == [rows |-> rows, ok |-> ok]

Row(name, qty) == <<name, qty>>

\* mutant of QuantityPositive: WHERE Quantity >= 0
QuantityNotNegative(row) == row[2] >= 0

\* WHERE Quantity > 0
QuantityPositive(row) == row[2] > 0

RECURSIVE SelectPositive(_)
\* the rows of the table that satisfy the WHERE clause, in table order
SelectPositive(rows) ==
    IF Len(rows) = 0 THEN <<>>
    ELSE (IF QuantityPositive(rows[1]) THEN <<rows[1]>> ELSE <<>>)
         \o SelectPositive(Tail(rows))

\* db.run("SELECT Items FROM Inventory WHERE Quantity > 0")
run_select_items(rows) ==
    LET sel == SelectPositive(rows)
    IN  [i \in 1..Len(sel) |-> <<sel[i][1]>>]

\* db.run("SELECT Items, Quantity FROM inventory WHERE Quantity > 0")
run_select_items_quantity(rows) == SelectPositive(rows)

----------------------------------------------------------------------------
(* generate_recipe_from_inventory *)

\* the recipes dict, in insertion order (the order .items() iterates it)
recipes ==
    << [ingredients |-> <<"apple", "banana">>, recipe_name |-> "Fruit Salad"],
       [ingredients |-> <<"chicken", "potato", "carrot">>, recipe_name |-> "Chicken Stew"],
       [ingredients |-> <<"pasta", "tomato", "cheese">>,
        recipe_name |-> "Pasta with Tomato Sauce"] >>

\* mutant of recipe_matches: any() in place of all()
recipe_matches_any(ingredients, available_items) ==
    \E k \in 1..Len(ingredients) : in_list(ingredients[k], available_items)

\* all(item in available_items for item in ingredients)
recipe_matches(ingredients, available_items) ==
    \A k \in 1..Len(ingredients) : in_list(ingredients[k], available_items)

RECURSIVE first_recipe(_, _)
\* the for loop over recipes.items() from index i on: the first match returns
first_recipe(i, available_items) ==
    IF i > Len(recipes) THEN Str("No recipe found with the available items.")
    ELSE IF recipe_matches(recipes[i].ingredients, available_items)
         THEN Str("Recipe: " \o recipes[i].recipe_name \o "\nIngredients: "
                  \o join(", ", recipes[i].ingredients))
         ELSE first_recipe(i + 1, available_items)

generate_recipe_from_inventory(db) ==
    After(Call("db.run", <<"SELECT Items FROM Inventory WHERE Quantity > 0">>, db.ok, ""),
        IF ~db.ok THEN Raised
        ELSE LET available_items == run_select_items(db.rows)
             IN  IF Len(available_items) = 0
                 THEN Str("No items available in the inventory.")
                 ELSE first_recipe(1, [i \in 1..Len(available_items) |->
                                          available_items[i][1]]))

----------------------------------------------------------------------------
(* handle_special_queries *)

greeting_keys == <<"hi", "hello", "hey", "good morning", "good afternoon", "good night">>

greetings(key) ==
    CASE key \in {"hi", "hello", "hey"} ->
            "Hi I am Yokie, your inventory chatbot. How can I help you?"
      [] key = "good morning" -> "Good morning!"
      [] key = "good afternoon" -> "Good afternoon!"
      [] key = "good night" -> "Good night!"

farewells == <<"bye", "goodbye", "see you", "later", "quit">>
about_bot == <<"who are you", "what are you", "what do you do">>
thanks == <<"thanks", "thank you">>
generic_queries == <<"how are you", "what's up", "how's it going", "do you love me",
                     "do you hate me", "i love you">>

\* f"{item[0]}: {item[1]}" for each row, newline-joined under the header
show_items_present(db) ==
    After(Call("db.run", <<"SELECT Items, Quantity FROM inventory WHERE Quantity > 0">>,
               db.ok, ""),
        IF ~db.ok THEN Raised
        ELSE LET available_items == run_select_items_quantity(db.rows)
             IN  IF Len(available_items) = 0
                 THEN Str("No items available in the inventory.")
                 ELSE Str("Items present in inventory:\n"
                          \o join("\n", [i \in 1..Len(available_items) |->
                                  available_items[i][1] \o ": "
                                  \o ToString(available_items[i][2])])))

\* mutant of normalise: the message is matched as typed
normalise_as_typed(message) == message

\* the normalisation of line 153
normalise(message) == lower(message)

\* the if/elif chain of lines 155-164
static_tables(q) ==
    IF in_list(q, greeting_keys) THEN Str(greetings(q))
    ELSE IF in_list(q, farewells) THEN Str("Goodbye! Have a great day!")
    ELSE IF in_list(q, about_bot)
    THEN Str("I am an AI assistant here to help you manage your home inventory. Ask me anything about your inventory.")
    ELSE IF in_list(q, thanks)
    THEN Str("You're welcome! If you have any more questions, feel free to ask.")
    ELSE IF in_list(q, generic_queries)
    THEN Str("As an AI assistant, I don't have feelings, but I'm here to help you!")
    ELSE None

\* the if/elif chain of lines 167-181
special_phrases(q) ==
    IF contains("your name", q) THEN Str("I am Yokie - your inventory chatbot.")
    ELSE IF contains("what do you do", q)
    THEN Str("I am Yokie. I am here to help you with your home inventory.")
    ELSE IF contains("guide me", q)
    THEN Str("Click on the chatbox below and ask your query. \n                  For example, \"tell me about the items in my inventory\".")
    ELSE IF contains("steps to use you", q)
    THEN Str("Click on the chatbox below and ask me about your home inventory.")
    ELSE IF contains("who is your creator", q)
    THEN Str("I have been created by the team of HomeSync.")
    ELSE IF contains("what can you do", q)
    THEN Str("I can update the quantity of any items in your inventory, \n                  check for details of items in your inventory, \n                  and provide you with a summarized shopping list.")
    ELSE None

\* lines 184-188
can_you(q) ==
    IF startswith(q, "can you")
    THEN IF contains("home inventory", q)
         THEN Str("Yes- I can assist you with your home inventory.")
         ELSE Str("No")
    ELSE None

\* lines 190-198
direct_reads(q, db) ==
    IF q = "generate recipe" THEN generate_recipe_from_inventory(db)
    ELSE IF q = "show items present" THEN show_items_present(db)
    ELSE None

\* mutant of handle_special_queries: the "can you" block placed before the
\* fixed phrases
handle_special_queries_can_you_first(uq, db) ==
    LET user_query_lower == normalise(uq)
    IN  IF static_tables(user_query_lower) # None THEN static_tables(user_query_lower)
        ELSE IF can_you(user_query_lower) # None THEN can_you(user_query_lower)
        ELSE IF special_phrases(user_query_lower) # None
        THEN special_phrases(user_query_lower)
        ELSE direct_reads(user_query_lower, db)

handle_special_queries(uq, db) ==
    LET user_query_lower == normalise(uq)
    IN  IF static_tables(user_query_lower) # None THEN static_tables(user_query_lower)
        ELSE IF special_phrases(user_query_lower) # None
        THEN special_phrases(user_query_lower)
        ELSE IF can_you(user_query_lower) # None THEN can_you(user_query_lower)
        ELSE direct_reads(user_query_lower, db)

----------------------------------------------------------------------------
(* Inputs: chat messages and Inventory tables. *)

upper_char(c) ==
    IF \E i \in 1..Len(LowerChars) : CharAt(LowerChars, i) = c
    THEN CharAt(UpperChars, CHOOSE i \in 1..Len(LowerChars) : CharAt(LowerChars, i) = c)
    ELSE c

RECURSIVE upper(_)
upper(s) ==
    IF Len(s) = 0 THEN ""
    ELSE upper_char(CharAt(s, 1)) \o upper(SubSeq(s, 2, Len(s)))

capitalize(s) ==
    IF Len(s) = 0 THEN "" ELSE upper_char(CharAt(s, 1)) \o SubSeq(s, 2, Len(s))

Cased(s, c) ==
    CASE c = "lower" -> s
      [] c = "upper" -> upper(s)
      [] c = "capitalize" -> capitalize(s)

Casings == {"lower", "upper", "capitalize"}

RECURSIVE Spaces(_)
Spaces(n) == IF n = 0 THEN "" ELSE " " \o Spaces(n - 1)

SeqToSet(q) == {q[i] : i \in 1..Len(q)}

\* every key of the static tables, every fixed phrase, the two direct reads,
\* messages that meet several rules at once, and messages no rule handles
BaseMessages ==
    SeqToSet(greeting_keys) \cup SeqToSet(farewells) \cup SeqToSet(about_bot)
    \cup SeqToSet(thanks) \cup SeqToSet(generic_queries)
    \cup { "your name", "tell me your name", "guide me", "steps to use you",
           "who is your creator", "what can you do", "so what do you do",
           "guide me, what can you do", "what can you do with your name",
           "can you fly", "can you", "can you tell me your name",
           "can you guide me", "can you manage my home inventory",
           "what can you do for my home inventory", "i can you",
           "can you generate recipe", "hi there", "hi can you",
           "generate recipe", "show items present", "generate recipe please",
           "show items", "shopping list", "how many apples do i have", "" }

Messages ==
    { Spaces(l) \o Cased(b, c) \o Spaces(r) :
        b \in BaseMessages, c \in Casings, l \in 0..MaxPad, r \in 0..MaxPad }

\* a few Inventory tables, the example of the description among them
SmallTables ==
    { <<>>,
      << Row("milk", 0) >>,
      << Row("apple", 5), Row("milk", 0) >>,
      << Row("rice", 2), Row("banana", 1), Row("apple", 3) >> }

\* the item names the generated tables draw from: every ingredient of the
\* recipes, and one item no recipe uses
ItemNames == <<"apple", "banana", "chicken", "potato", "carrot", "pasta", "tomato",
               "cheese", "rice">>

Reverse(q) == [i \in 1..Len(q) |-> q[Len(q) + 1 - i]]

RECURSIVE TableRows(_, _, _, _)
\* the rows of the items from index i on: a stocked item has a quantity in
\* 1..MaxQty; an item out of stock has a row of quantity 0 or no row at all
\* ("zero": all have the row, "absent": none, "mixed": every other one)
TableRows(stocked, out, n, i) ==
    IF i > Len(ItemNames) THEN <<>>
    ELSE (IF i \in stocked THEN << Row(ItemNames[i], 1 + ((i + n) % MaxQty)) >>
          ELSE IF out = "zero" \/ (out = "mixed" /\ i % 2 = 1)
          THEN << Row(ItemNames[i], 0) >>
          ELSE <<>>)
         \o TableRows(stocked, out, n, i + 1)

Tables ==
    { IF rev THEN Reverse(TableRows(stocked, out, n, 1)) ELSE TableRows(stocked, out, n, 1) :
        stocked \in SUBSET (1..Len(ItemNames)), out \in {"zero", "absent", "mixed"},
        n \in 0..(MaxQty - 1), rev \in BOOLEAN }

DirectReadMessages == {"generate recipe", "show items present", "Show Items Present"}

----------------------------------------------------------------------------
(* SpecDispatch: handle_special_queries applied to one message and one     *)
(* table; the store answers.                                               *)

Idle ==
    /\ chat_history = <<>>
    /\ has_db = TRUE
    /\ uncommitted = <<>>
    /\ sql = ""
    /\ sql_response = <<>>
    /\ schema_read = FALSE
    /\ calls = <<>>
    /\ shown = <<>>
    /\ crashed = FALSE

InitDispatch ==
    /\ Idle
    /\ user_query \in Messages
    /\ store \in SmallTables
    /\ pc = "call"
    /\ result = None

Dispatch ==
    /\ pc = "call"
    /\ result' = handle_special_queries(user_query, Db(store, TRUE))
    /\ calls' = result'.calls
    /\ pc' = "returned"
    /\ UNCHANGED <<chat_history, has_db, store, uncommitted, user_query, sql,
                   sql_response, schema_read, shown, crashed>>

NextDispatch == Dispatch

SpecDispatch == InitDispatch /\ [][NextDispatch]_vars

(* SpecDirect: the two direct store reads over the generated tables. *)

InitDirect ==
    /\ Idle
    /\ user_query \in DirectReadMessages
    /\ store \in Tables
    /\ pc = "call"
    /\ result = None

SpecDirect == InitDirect /\ [][NextDispatch]_vars

----------------------------------------------------------------------------
(* Spec: the session.  One script run handles one interaction: a click on  *)
(* Connect, or one submission of the chat input.  A run that enters        *)
(* get_response passes through the steps of the chain one collaborator     *)
(* call at a time; every such call either returns or raises.               *)

AIMessage(content) == [role |-> "AI", content |-> content]
HumanMessage(content) == [role |-> "Human", content |-> content]

Greeting == "Hello! I'm Yokie- Your AI assistant. Ask me anything about your Home inventory."
Apology == "Sorry, I could not understand, try a different query."

\* what the chat input can submit
ChatInputs == {"hi", "Good Morning", " hi", " ", "can you fly", "generate recipe",
               "show items present", "shopping list"}

\* texts the Stage A model call can return
GeneratedSQL == {"SELECT Items FROM Inventory WHERE Quantity < 3;",
                 " SELECT Items FROM Inventory\n",
                 "Here is your query"}

\* texts the Stage B model call can return
ModelReplies == {"You need: milk", "you don't need anything currently"}

RECURSIVE NamesBelow(_, _)
NamesBelow(rows, limit) ==
    IF Len(rows) = 0 THEN <<>>
    ELSE (IF rows[1][2] < limit THEN <<rows[1][1]>> ELSE <<>>)
         \o NamesBelow(Tail(rows), limit)

\* db.run(query) for the texts of GeneratedSQL: the result rendered as text,
\* or Raised for a text the store cannot execute
run_generated(query, db) ==
    IF ~db.ok THEN Raised
    ELSE CASE strip(query) = "SELECT Items FROM Inventory WHERE Quantity < 3;" ->
                Str(join(", ", NamesBelow(db.rows, 3)))
           [] strip(query) = "SELECT Items FROM Inventory" ->
                Str(join(", ", [i \in 1..Len(db.rows) |-> db.rows[i][1]]))
           [] OTHER -> Raised

\* StrOutputParser(): the model's text as returned
StrOutputParser(content) == content

\* mutant of query_to_run: the generated text is trimmed before it is run
query_to_run_stripped(query) == strip(query)

\* vars["query"], the text handed to db.run
query_to_run(query) == query

\* mutant of on_exception: the exception leaves the handler
on_exception_propagate == Raised

\* except Exception: the fixed apology becomes the response
on_exception == Str(Apology)

\* if special_response:
is_special(special_response) ==
    special_response.kind = "str" /\ special_response.text # ""

HumanTurns(history) == Cardinality({i \in 1..Len(history) : history[i].role = "Human"})

Init ==
    /\ chat_history = << AIMessage(Greeting) >>
    /\ has_db = FALSE
    /\ store \in SmallTables
    /\ uncommitted = <<>>
    /\ pc = "idle"
    /\ user_query = ""
    /\ sql = ""
    /\ sql_response = <<>>
    /\ schema_read = FALSE
    /\ calls = <<>>
    /\ shown = <<>>
    /\ crashed = FALSE
    /\ result = None

ChainLocals == <<sql, sql_response, schema_read>>

\* the sidebar's Connect button: init_database returns a handle or raises
Connect ==
    /\ pc = "idle"
    /\ \E ok \in BOOLEAN :
          /\ has_db' = (has_db \/ ok)
          /\ crashed' = ~ok
    /\ user_query' = ""
    /\ calls' = <<>>
    /\ shown' = <<>>
    /\ result' = None
    /\ UNCHANGED <<chat_history, store, uncommitted, pc, ChainLocals>>

\* The end of a script run whose log is history and whose rendered strings
\* are rendered: lines 269-272 with the response r, or, when r is an exception
\* nothing caught, the run aborted where it stood.
Finish(history, rendered, r) ==
    /\ pc' = "idle"
    /\ result' = r
    /\ sql' = ""
    /\ sql_response' = <<>>
    /\ schema_read' = FALSE
    /\ IF r.kind = "raise"
       THEN /\ crashed' = TRUE
            /\ chat_history' = history
            /\ shown' = rendered
       ELSE /\ crashed' = FALSE
            /\ chat_history' = Append(history, AIMessage(r.text))
            /\ shown' = Append(rendered, r.text)

\* A chat submission, lines 251-272: a blank message does nothing; any other
\* is logged and rendered, then answered by the dispatcher, or the run enters
\* get_response (line 265).
Submit(m) ==
    /\ pc = "idle"
    /\ HumanTurns(chat_history) < MaxSubmits
    /\ user_query' = m
    /\ UNCHANGED <<has_db, store, uncommitted>>
    /\ IF strip(m) = ""
       THEN /\ calls' = <<>>
            /\ shown' = <<>>
            /\ crashed' = FALSE
            /\ result' = None
            /\ UNCHANGED <<chat_history, pc, ChainLocals>>
       ELSE LET history == Append(chat_history, HumanMessage(m))
            IN  IF ~has_db
                THEN \* st.session_state.db is read with no "db" key set
                     /\ calls' = <<>>
                     /\ Finish(history, <<m>>, Raised)
                ELSE \E ok \in BOOLEAN :
                       LET special_response == handle_special_queries(m, Db(store, ok))
                       IN  /\ calls' = special_response.calls
                           /\ IF special_response.kind = "raise"
                              THEN Finish(history, <<m>>, Raised)
                              ELSE IF is_special(special_response)
                              THEN Finish(history, <<m>>, Str(special_response.text))
                              ELSE /\ chat_history' = history
                                   /\ shown' = <<m>>
                                   /\ crashed' = FALSE
                                   /\ result' = None
                                   /\ pc' = "get_response"
                                   /\ UNCHANGED ChainLocals

\* a chain step raised: the except clause of line 266 gives the response
Failed(call) ==
    /\ calls' = Append(calls, call)
    /\ Finish(chat_history, shown, on_exception)
    /\ UNCHANGED <<has_db, store, uncommitted, user_query>>

\* sql_chain: schema=get_schema, db.get_table_info()
StageASchema ==
    /\ pc = "get_response"
    /\ \/ /\ calls' = Append(calls, Call("db.get_table_info", <<>>, TRUE, "schema"))
          /\ pc' = "stage_a_llm"
          /\ UNCHANGED <<chat_history, has_db, store, uncommitted, user_query,
                         ChainLocals, shown, crashed, result>>
       \/ Failed(Call("db.get_table_info", <<>>, FALSE, ""))

\* sql_chain: prompt | llm | StrOutputParser()
StageALlm ==
    /\ pc = "stage_a_llm"
    /\ \/ \E text \in GeneratedSQL :
            /\ calls' = Append(calls, Call("llm", <<user_query>>, TRUE, text))
            /\ sql' = StrOutputParser(text)
            /\ pc' = "assign"
            /\ UNCHANGED <<chat_history, has_db, store, uncommitted, user_query,
                           sql_response, schema_read, shown, crashed, result>>
       \/ Failed(Call("llm", <<user_query>>, FALSE, ""))

AssignDone(have_schema, have_response) ==
    IF have_schema /\ have_response THEN "stage_b_llm" ELSE "assign"

\* .assign(schema=lambda _: db.get_table_info(), ...)
AssignSchema ==
    /\ pc = "assign"
    /\ ~schema_read
    /\ \/ /\ calls' = Append(calls, Call("db.get_table_info", <<>>, TRUE, "schema"))
          /\ schema_read' = TRUE
          /\ pc' = AssignDone(TRUE, sql_response # <<>>)
          /\ UNCHANGED <<chat_history, has_db, store, uncommitted, user_query,
                         sql, sql_response, shown, crashed, result>>
       \/ Failed(Call("db.get_table_info", <<>>, FALSE, ""))

\* .assign(..., response=lambda vars: db.run(vars["query"]))
AssignRun ==
    /\ pc = "assign"
    /\ sql_response = <<>>
    /\ \E ok \in BOOLEAN :
         LET query == query_to_run(sql)
             r == run_generated(query, Db(store, ok))
         IN  IF r.kind = "raise"
             THEN Failed(Call("db.run", <<query>>, FALSE, ""))
             ELSE /\ calls' = Append(calls, Call("db.run", <<query>>, TRUE, r.text))
                  /\ sql_response' = <<r.text>>
                  /\ pc' = AssignDone(schema_read, TRUE)
                  /\ UNCHANGED <<chat_history, has_db, store, uncommitted, user_query,
                                 sql, schema_read, shown, crashed, result>>

\* prompt | llm | StrOutputParser(), then lines 269-272
StageBLlm ==
    /\ pc = "stage_b_llm"
    /\ \/ \E text \in ModelReplies :
            /\ calls' = Append(calls, Call("llm", <<user_query, sql, sql_response[1]>>,
                                           TRUE, text))
            /\ Finish(chat_history, shown, Str(StrOutputParser(text)))
            /\ UNCHANGED <<has_db, store, uncommitted, user_query>>
       \/ Failed(Call("llm", <<user_query, sql, sql_response[1]>>, FALSE, ""))

Next ==
    \/ Connect
    \/ \E m \in ChatInputs : Submit(m)
    \/ StageASchema
    \/ StageALlm
    \/ AssignSchema
    \/ AssignRun
    \/ StageBLlm

Spec == Init /\ [][Next]_vars

----------------------------------------------------------------------------
(* SpecMutation: update_inventory.  The cursor that executes the SELECT    *)
(* and the UPDATE belongs to the connection of line 275; line 285 calls    *)
(* commit() on the connection a second db.engine.raw_connection() hands    *)
(* out.  Whether the two are one connection is the pool's choice: if so    *)
(* the UPDATE is committed, if not it stays in the first connection's open *)
(* transaction, which no other connection reads, until that connection is  *)
(* reset.                                                                  *)

UpdateItems == {"rice", "kiwi", "apple", "milk"}

\* cursor.fetchone() after "SELECT * FROM Inventory WHERE Items = %s"
fetchone(rows, item_name) ==
    LET hits == {i \in 1..Len(rows) : rows[i][1] = item_name}
    IN  IF hits = {} THEN <<>> ELSE rows[CHOOSE i \in hits : \A j \in hits : i <= j]

\* "UPDATE Inventory SET Quantity = %s WHERE Items = %s"
update_quantity(rows, item_name, new_quantity) ==
    [i \in 1..Len(rows) |->
        IF rows[i][1] = item_name THEN Row(item_name, new_quantity) ELSE rows[i]]

\* The call's returned string, the committed table after it, and the writes it
\* left uncommitted.  db.ok: no store call raises; same_connection: the second
\* raw_connection() is the connection of the cursor.
update_inventory(db, item_name, new_quantity, same_connection) ==
    IF ~db.ok
    THEN [result |-> Str("An error occurred: " \o "MySQL Connection not available."),
          rows |-> db.rows, pending |-> <<>>]
    ELSE IF fetchone(db.rows, item_name) # <<>>
    THEN [result |-> Str("Successfully updated " \o item_name \o " quantity to "
                         \o ToString(new_quantity) \o "."),
          rows |-> IF same_connection
                   THEN update_quantity(db.rows, item_name, new_quantity)
                   ELSE db.rows,
          pending |-> IF same_connection THEN <<>> ELSE << <<item_name, new_quantity>> >>]
    ELSE [result |-> Str("Item '" \o item_name \o "' not found in the inventory."),
          rows |-> db.rows, pending |-> <<>>]

InitMutation ==
    /\ Idle
    /\ store \in SmallTables
    /\ pc = "idle"
    /\ user_query = ""
    /\ result = None

UpdateInventory(item_name, new_quantity) ==
    /\ Len(calls) < MaxUpdates
    /\ \E ok \in BOOLEAN, same_connection \in BOOLEAN :
         LET r == update_inventory(Db(store, ok), item_name, new_quantity, same_connection)
         IN  /\ result' = r.result
             /\ store' = r.rows
             /\ uncommitted' = uncommitted \o r.pending
             /\ calls' = Append(calls, Call("update_inventory", <<item_name, new_quantity>>,
                                            ok, r.result.text))
    /\ UNCHANGED <<chat_history, has_db, pc, user_query, ChainLocals, shown, crashed>>

\* the connection holding uncommitted writes is reset: they are rolled back
ResetConnection ==
    /\ uncommitted # <<>>
    /\ uncommitted' = <<>>
    /\ UNCHANGED <<chat_history, has_db, store, pc, user_query, ChainLocals, calls,
                   shown, crashed, result>>

NextMutation ==
    \/ \E item_name \in UpdateItems, new_quantity \in 0..MaxQty :
          UpdateInventory(item_name, new_quantity)
    \/ ResetConnection

SpecMutation == InitMutation /\ [][NextMutation]_vars

----------------------------------------------------------------------------
(* The dispatcher's rules as the description numbers them. *)

Rule6Phrases ==
    << [phrase |-> "your name", reply |-> "I am Yokie - your inventory chatbot."],
       [phrase |-> "what do you do",
        reply |-> "I am Yokie. I am here to help you with your home inventory."],
       [phrase |-> "guide me",
        reply |-> "Click on the chatbox below and ask your query. \n                  For example, \"tell me about the items in my inventory\"."],
       [phrase |-> "steps to use you",
        reply |-> "Click on the chatbox below and ask me about your home inventory."],
       [phrase |-> "who is your creator",
        reply |-> "I have been created by the team of HomeSync."],
       [phrase |-> "what can you do",
        reply |-> "I can update the quantity of any items in your inventory, \n                  check for details of items in your inventory, \n                  and provide you with a summarized shopping list."] >>

Rule6Hits(q) == {k \in 1..Len(Rule6Phrases) : contains(Rule6Phrases[k].phrase, q)}

MinOf(S) == CHOOSE x \in S : \A y \in S : x <= y

RuleMatches(n, q) ==
    CASE n = 1 -> q \in {"hi", "hello", "hey", "good morning", "good afternoon", "good night"}
      [] n = 2 -> q \in {"bye", "goodbye", "see you", "later", "quit"}
      [] n = 3 -> q \in {"who are you", "what are you", "what do you do"}
      [] n = 4 -> q \in {"thanks", "thank you"}
      [] n = 5 -> q \in {"how are you", "what's up", "how's it going", "do you love me",
                         "do you hate me", "i love you"}
      [] n = 6 -> Rule6Hits(q) # {}
      [] n = 7 -> startswith(q, "can you")
      [] n = 8 -> q = "generate recipe"
      [] n = 9 -> q = "show items present"

RuleReply(n, q, db) ==
    CASE n = 1 -> Str(CASE q \in {"hi", "hello", "hey"} ->
                              "Hi I am Yokie, your inventory chatbot. How can I help you?"
                        [] q = "good morning" -> "Good morning!"
                        [] q = "good afternoon" -> "Good afternoon!"
                        [] q = "good night" -> "Good night!")
      [] n = 2 -> Str("Goodbye! Have a great day!")
      [] n = 3 -> Str("I am an AI assistant here to help you manage your home inventory. Ask me anything about your inventory.")
      [] n = 4 -> Str("You're welcome! If you have any more questions, feel free to ask.")
      [] n = 5 -> Str("As an AI assistant, I don't have feelings, but I'm here to help you!")
      [] n = 6 -> Str(Rule6Phrases[MinOf(Rule6Hits(q))].reply)
      [] n = 7 -> IF contains("home inventory", q)
                  THEN Str("Yes- I can assist you with your home inventory.")
                  ELSE Str("No")
      [] n = 8 -> generate_recipe_from_inventory(db)
      [] n = 9 -> show_items_present(db)

RulesMatching(q) == {n \in 1..9 : RuleMatches(n, q)}

\* C1: the dispatcher returns the reply of the lowest-numbered rule (1 greeting,
\* 2 farewell, 3 about, 4 thanks, 5 small talk, 6 fixed phrases in their listed
\* order, 7 "can you", 8 "generate recipe", 9 "show items present") that the
\* lower-cased message satisfies, and None exactly when no rule matches.
C1_FirstMatchWins ==
    pc = "returned" =>
        LET q == lower(user_query)
            db == Db(store, TRUE)
        IN  /\ RulesMatching(q) # {} => result = RuleReply(MinOf(RulesMatching(q)), q, db)
            /\ (result.kind = "None") <=> (RulesMatching(q) = {})

\* a message meeting rule 6 and rule 7 got the rule-6 reply
C1_Witness ==
    /\ pc = "returned"
    /\ user_query = "Can you tell me your name"
    /\ {6, 7} \subseteq RulesMatching(lower(user_query))
    /\ result = Str("I am Yokie - your inventory chatbot.")

\* C2 as stated: dispatching m gives what dispatching trim(lower(m)) gives.
C2_TrimmedAndLowered ==
    pc = "returned" =>
        result = handle_special_queries(strip(lower(user_query)), Db(store, TRUE))

\* C2 amended: every rule is matched against the lower-cased message and
\* whitespace is kept: dispatching m gives what dispatching lower(m) gives.
C2_LoweredOnly ==
    pc = "returned" =>
        result = handle_special_queries(lower(user_query), Db(store, TRUE))

\* an upper-case greeting was answered by the greeting rule
C2_Witness ==
    /\ pc = "returned"
    /\ user_query = "HI"
    /\ result = Str("Hi I am Yokie, your inventory chatbot. How can I help you?")

----------------------------------------------------------------------------
(* The direct store reads. *)

Stocked(rows) == {i \in 1..Len(rows) : rows[i][2] > 0}

RECURSIVE LinesOf(_, _)
\* the reply lines of the rows from index i on, each ended by a newline
LinesOf(rows, i) ==
    IF i > Len(rows) THEN ""
    ELSE (IF rows[i][2] > 0
          THEN rows[i][1] \o ": " \o ToString(rows[i][2]) \o "\n"
          ELSE "")
         \o LinesOf(rows, i + 1)

AvailableNames(rows) == {rows[i][1] : i \in Stocked(rows)}

RecipeTable ==
    << [needs |-> {"apple", "banana"},
        reply |-> "Recipe: Fruit Salad\nIngredients: apple, banana"],
       [needs |-> {"chicken", "potato", "carrot"},
        reply |-> "Recipe: Chicken Stew\nIngredients: chicken, potato, carrot"],
       [needs |-> {"pasta", "tomato", "cheese"},
        reply |-> "Recipe: Pasta with Tomato Sauce\nIngredients: pasta, tomato, cheese"] >>

Cookable(rows) == {k \in 1..Len(RecipeTable) : RecipeTable[k].needs \subseteq AvailableNames(rows)}

----------------------------------------------------------------------------
(* The session loop. *)

\* the run that handled a non-blank chat message has ended
MessageHandled == pc = "idle" /\ strip(user_query) # ""

\* the run entered get_response: the chain's first call is the schema read
PipelineEntered == Len(calls) > 0 /\ calls[1].op = "db.get_table_info"

CallsOf(op) == {i \in 1..Len(calls) : calls[i].op = op}

\* C3: a message that is a greeting key in any letter case is answered with
\* the key's fixed reply, displayed, and neither the store nor the model is
\* invoked while it is handled.
C3_GreetingBypassesPipeline ==
    (MessageHandled /\ in_list(lower(user_query), greeting_keys)) =>
        /\ ~crashed
        /\ shown = <<user_query, greetings(lower(user_query))>>
        /\ calls = <<>>

\* C4: whatever fails while a submitted message is handled, the run ends with
\* a reply displayed for that message and not with an uncaught exception.
C4_EveryFailureDisplaysAReply ==
    MessageHandled => (~crashed /\ Len(shown) = 2 /\ result.kind = "str")

\* C6: an exception raised by any call of the Generation Pipeline is caught:
\* the response is exactly the fixed apology, it is displayed, it is appended
\* to the log as the assistant turn after the user's turn, and the run does
\* not end in an exception.
C6_PipelineFailureApologises ==
    (MessageHandled /\ PipelineEntered /\ \E i \in 1..Len(calls) : ~calls[i].ok) =>
        /\ ~crashed
        /\ result = Str("Sorry, I could not understand, try a different query.")
        /\ shown = <<user_query, "Sorry, I could not understand, try a different query.">>
        /\ Len(chat_history) >= 3
        /\ chat_history[Len(chat_history)] =
              AIMessage("Sorry, I could not understand, try a different query.")
        /\ chat_history[Len(chat_history) - 1] = HumanMessage(user_query)

\* the generated text could not be executed, and the apology was the reply
C6_Witness ==
    /\ MessageHandled
    /\ PipelineEntered
    /\ calls[Len(calls)].op = "db.run"
    /\ ~calls[Len(calls)].ok
    /\ calls[Len(calls)].args = <<"Here is your query">>
    /\ shown = <<user_query, Apology>>

\* C9: the log starts with the assistant's greeting and then alternates user
\* turn, assistant turn: between runs it never ends in a user turn.
C9_LogAlternates ==
    pc = "idle" =>
        /\ Len(chat_history) % 2 = 1
        /\ \A i \in 1..Len(chat_history) :
              chat_history[i].role = (IF i % 2 = 1 THEN "AI" ELSE "Human")

\* C10: for a message the dispatcher does not handle and with no failure, the
\* chain calls the model for Stage A, then runs exactly the text Stage A
\* returned, then calls the model for Stage B with that text and the result;
\* the model is called twice, the text is run once, and Stage B's text is the
\* reply as returned.
C10_PipelineOrder ==
    (MessageHandled /\ PipelineEntered /\ \A i \in 1..Len(calls) : calls[i].ok) =>
        /\ Len(calls) = 5
        /\ CallsOf("llm") = {2, 5}
        /\ Cardinality(CallsOf("db.run")) = 1
        /\ CallsOf("db.run") \subseteq {3, 4}
        /\ calls[2].args = <<user_query>>
        /\ \A r \in CallsOf("db.run") :
              /\ calls[r].args = <<calls[2].out>>
              /\ calls[5].args = <<user_query, calls[2].out, calls[r].out>>
        /\ result = Str(calls[5].out)
        /\ shown = <<user_query, calls[5].out>>
        /\ chat_history[Len(chat_history)] = AIMessage(calls[5].out)

\* a generated text with surrounding whitespace went through both stages
C10_Witness ==
    /\ MessageHandled
    /\ PipelineEntered
    /\ Len(calls) = 5
    /\ \A i \in 1..Len(calls) : calls[i].ok
    /\ calls[2].out = " SELECT Items FROM Inventory\n"
    /\ calls[4].op = "db.run"
    /\ result.text \in ModelReplies

----------------------------------------------------------------------------
(* The mutation handler. *)

HasItem(rows, name) == \E i \in 1..Len(rows) : rows[i][1] = name

\* what a read of the item on any connection returns: its committed quantities
ReadQuantities(rows, name) == {rows[i][2] : i \in {j \in 1..Len(rows) : rows[j][1] = name}}

\* C5: when no store call raises, update_inventory on a name the store holds
\* returns "Successfully updated <name> quantity to <n>." and every read of the
\* item after it returns n; on a name the store does not hold it returns
\* "Item '<name>' not found in the inventory." and leaves the table as it was.
C5_UpdateCommitsOrLeavesUnchanged ==
    [][ (Len(calls') = Len(calls) + 1 /\ calls'[Len(calls')].ok) =>
          LET name == calls'[Len(calls')].args[1]
              n == calls'[Len(calls')].args[2]
          IN  IF HasItem(store, name)
              THEN /\ result'.text = "Successfully updated " \o name \o " quantity to "
                                     \o ToString(n) \o "."
                   /\ ReadQuantities(store', name) = {n}
              ELSE /\ result'.text = "Item '" \o name \o "' not found in the inventory."
                   /\ store' = store ]_vars

=============================================================================
